---- MODULE Spec2Model ----
(***************************************************************************)
(* The sjcl.prng random number generator (a Fortuna derivative): entropy   *)
(* pools and their accounting, the readiness oracle, the reseed engine,    *)
(* the AES-CTR output stage with gating, and the progress/seeded events.   *)
(*                                                                         *)
(* The prng object is a record ("this"); each method is an operator from   *)
(* the object (and the method's arguments) to the object after the call.   *)
(* JavaScript arrays are functions over 0..(length-1), so that indices are *)
(* the source's indices.  Hash and cipher values are kept symbolic: a pool *)
(* is the number of update() calls it absorbed since it was last           *)
(* finalized, a key is named by the place it was derived at, and a cipher  *)
(* is the key it was instantiated with.                                    *)
(***************************************************************************)
EXTENDS Integers, Sequences, FiniteSets, TLC

(* ------------------------------------------------------------------ *)
(* Bounds of the exploration                                          *)
(* ------------------------------------------------------------------ *)

\* addEntropy calls accepted after construction (caps eventId)
MaxAdds == 2
\* blocks the counter may have advanced by when randomWords is still called
MaxBlocks == 4
\* listener registrations made through addEventListener by the host
MaxListeners == 2
\* reseeds after which the long session stops
MaxReseeds == 17

(* ------------------------------------------------------------------ *)
(* JavaScript values                                                  *)
(* ------------------------------------------------------------------ *)

\* an omitted argument / a missing property
undefined == -1

Max(a, b) == IF a >= b THEN a ELSE b

Min(a, b) == IF a <= b THEN a ELSE b

\* array helpers: an array is a function over 0..(length-1)
ALen(a) == Cardinality(DOMAIN a)

APush(a, x) == [i \in 0..ALen(a) |-> IF i < ALen(a) THEN a[i] ELSE x]

EmptyObj == [k \in {} |-> 0]

\* obj[k], undefined when the property is missing
Get(obj, k) == IF k \in DOMAIN obj THEN obj[k] ELSE undefined

\* obj[k] = v
Put(obj, k, v) == [x \in DOMAIN obj \cup {k} |-> IF x = k THEN v ELSE obj[x]]

RECURSIVE Pow2(_)
\* 1 << n
Pow2(n) == IF n = 0 THEN 1 ELSE 2 * Pow2(n - 1)

\* (x & (1 << i)) !== 0
BitSet(x, i) == (x \div Pow2(i)) % 2 = 1

\* x+1 | 0 for a signed 32-bit x: the sum wrapped to 32 bits
Inc32(x) == IF x = 2147483647 THEN (-2147483647) - 1 ELSE x + 1

RECURSIVE GCD(_, _)
GCD(a, b) == IF b = 0 THEN a ELSE GCD(b, a % b)

\* the number a / b (b > 0), in lowest terms
Frac(a, b) == [num |-> a \div GCD(a, b), den |-> b \div GCD(a, b)]

One == [num |-> 1, den |-> 1]

\* F applied to the value of v: v is evaluated once, before F's body
Then(v, F(_)) == CHOOSE y \in {F(x) : x \in {v}} : TRUE

(* ------------------------------------------------------------------ *)
(* Constants of the generator                                         *)
(* ------------------------------------------------------------------ *)

NOT_READY == 0

READY == 1

REQUIRES_RESEED == 2

MAX_WORDS_PER_BURST == 65536

PARANOIA_LEVELS == [i \in 0..10 |->
    CASE i = 0 -> 0 [] i = 1 -> 48 [] i = 2 -> 64 [] i = 3 -> 96
      [] i = 4 -> 128 [] i = 5 -> 192 [] i = 6 -> 256 [] i = 7 -> 384
      [] i = 8 -> 512 [] i = 9 -> 768 [] i = 10 -> 1024]

MILLISECONDS_PER_RESEED == 30000

BITS_PER_RESEED == 80

\* (readiness & flag) !== 0, for a one-bit flag
HasFlag(readiness, flag) == (readiness \div flag) % 2 = 1

(* ------------------------------------------------------------------ *)
(* Readiness oracle                                                   *)
(* ------------------------------------------------------------------ *)

\* A slip in isReady: the guard on a zero working strength is forgotten
isReadyUnguarded(this, paranoia, t) ==
    LET entropyRequired ==
            PARANOIA_LEVELS[IF paranoia # undefined THEN paranoia
                            ELSE this.defaultParanoia]
    IN  IF this.strength >= entropyRequired
        THEN IF this.poolEntropy[0] > BITS_PER_RESEED /\ t > this.nextReseed
             THEN REQUIRES_RESEED + READY
             ELSE READY
        ELSE IF this.poolStrength >= entropyRequired
             THEN REQUIRES_RESEED + NOT_READY
             ELSE NOT_READY

\* A slip in the deadline test: a reseed is due at the deadline itself
isReadyAtDeadline(this, paranoia, t) ==
    LET entropyRequired ==
            PARANOIA_LEVELS[IF paranoia # undefined THEN paranoia
                            ELSE this.defaultParanoia]
    IN  IF this.strength # 0 /\ this.strength >= entropyRequired
        THEN IF this.poolEntropy[0] > BITS_PER_RESEED /\ t >= this.nextReseed
             THEN REQUIRES_RESEED + READY
             ELSE READY
        ELSE IF this.poolStrength >= entropyRequired
             THEN REQUIRES_RESEED + NOT_READY
             ELSE NOT_READY

\* isReady(paranoia) evaluated at clock value t
isReady(this, paranoia, t) ==
    LET entropyRequired ==
            PARANOIA_LEVELS[IF paranoia # undefined THEN paranoia
                            ELSE this.defaultParanoia]
    IN  IF this.strength # 0 /\ this.strength >= entropyRequired
        THEN IF this.poolEntropy[0] > BITS_PER_RESEED /\ t > this.nextReseed
             THEN REQUIRES_RESEED + READY
             ELSE READY
        ELSE IF this.poolStrength >= entropyRequired
             THEN REQUIRES_RESEED + NOT_READY
             ELSE NOT_READY

\* getProgress(paranoia)
getProgress(this, paranoia) ==
    LET entropyRequired ==
            PARANOIA_LEVELS[IF paranoia # undefined /\ paranoia # 0 THEN paranoia
                            ELSE this.defaultParanoia]
    IN  IF this.strength >= entropyRequired
        THEN One
        ELSE IF this.poolStrength > entropyRequired
             THEN One
             ELSE Frac(this.poolStrength, entropyRequired)

(* ------------------------------------------------------------------ *)
(* Symbolic hash and cipher values                                    *)
(* ------------------------------------------------------------------ *)

\* the key [0,0,0,0,0,0,0,0] of a new generator
ZeroKey == [src |-> "zero", n |-> 0, ctr |-> [i \in 0..3 |-> 0]]

\* sha256.hash(key.concat(seedWords)) of the n-th reseed
SeedKey(n, counter) == [src |-> "reseed", n |-> n, ctr |-> counter]

\* block1.concat(block2): the key a gate derives from two consecutive blocks
GateKey(block1, block2) == [src |-> "gate", n |-> 0, ctr |-> block1.ctr]

\* this._cipher = undefined
NoCipher == [defined |-> FALSE, key |-> ZeroKey]

\* new sjcl.cipher.aes(key)
Aes(key) == [defined |-> TRUE, key |-> key]

\* cipher.encrypt(counter)
Encrypt(cipher, counter) == [key |-> cipher.key, ctr |-> counter]

\* new sjcl.hash.sha256(), and a pool after finalize(): no update absorbed
FreshPool == 0

(* ------------------------------------------------------------------ *)
(* Output stage                                                       *)
(* ------------------------------------------------------------------ *)

RECURSIVE IncFrom(_, _)
\* for (i..3) { counter[i] = counter[i]+1 | 0; if (counter[i]) break; }
IncFrom(counter, i) ==
    IF i >= 4 THEN counter
    ELSE LET c == [counter EXCEPT ![i] = Inc32(counter[i])]
         IN  IF c[i] # 0 THEN c ELSE IncFrom(c, i + 1)

\* A slip in the counter loop: no carry into the next word
IncCounterLowWord(counter) == [counter EXCEPT ![0] = Inc32(counter[0])]

\* the counter loop of _gen4words and of _reseed
IncCounter(counter) == IncFrom(counter, 0)

\* A call in progress: the object, the error thrown (if any), the value of
\* the last _gen4words, and what the call has done so far.
Begin(this) ==
    [this |-> this, threw |-> "none", g |-> Encrypt(NoCipher, this.counter),
     out |-> 0, outKeys |-> {}, gates |-> 0, since |-> 0, maxBurst |-> 0,
     reseeds |-> 0, full |-> FALSE, outAtReseed |-> 0, drained |-> {},
     last |-> "none", ret |-> 0, fired |-> <<>>, oldReady |-> NOT_READY,
     robin |-> 0, est |-> 0]

\* _gen4words: a TypeError when the cipher is undefined
gen4words(r) ==
    IF r.threw # "none" THEN r
    ELSE LET c == IncCounter(r.this.counter)
             t == [r.this EXCEPT !.counter = c]
         IN  IF ~t.cipher.defined
             THEN [r EXCEPT !.this = t, !.threw = "TypeError"]
             ELSE [r EXCEPT !.this = t, !.g = Encrypt(t.cipher, c)]

\* _gate
gate(r) ==
    Then(gen4words(r), LAMBDA r1 :
    Then(gen4words(r1), LAMBDA r2 :
      LET k == GateKey(r1.g, r2.g)
      IN  IF r2.threw # "none" THEN r2
          ELSE [r2 EXCEPT !.this = [r2.this EXCEPT !.key = k, !.cipher = Aes(k)],
                          !.gates = @ + 1, !.since = 0, !.last = "gate"]))

\* _reseed(seedWords), for the reseed that makes reseedCount n
reseed(this, n) ==
    LET k == SeedKey(n, this.counter)
    IN  [this EXCEPT !.key = k, !.cipher = Aes(k),
                     !.counter = IncCounter(this.counter)]

(* ------------------------------------------------------------------ *)
(* Reseed engine                                                      *)
(* ------------------------------------------------------------------ *)

RECURSIVE DrainFromEvery(_, _, _, _)
\* A slip in the pool loop: the loop never breaks
DrainFromEvery(this, full, i, d) ==
    IF i >= ALen(this.pools) THEN d
    ELSE Then([pools |-> [d.pools EXCEPT ![i] = FreshPool],
               poolEntropy |-> [d.poolEntropy EXCEPT ![i] = 0],
               strength |-> d.strength + d.poolEntropy[i],
               drained |-> d.drained \cup {i}],
              LAMBDA d1 : DrainFromEvery(this, full, i + 1, d1))

RECURSIVE DrainFromLate(_, _, _, _)
\* A slip in the pool loop: the break tests the bit of the next pool
DrainFromLate(this, full, i, d) ==
    IF i >= ALen(this.pools) THEN d
    ELSE Then([pools |-> [d.pools EXCEPT ![i] = FreshPool],
               poolEntropy |-> [d.poolEntropy EXCEPT ![i] = 0],
               strength |-> d.strength + d.poolEntropy[i],
               drained |-> d.drained \cup {i}],
              LAMBDA d1 :
                IF ~full /\ BitSet(this.reseedCount, i + 1) THEN d1
                ELSE DrainFromLate(this, full, i + 1, d1))

RECURSIVE DrainFromUncredited(_, _, _, _)
\* A slip in the pool loop: the drained bits are not added up
DrainFromUncredited(this, full, i, d) ==
    IF i >= ALen(this.pools) THEN d
    ELSE Then([pools |-> [d.pools EXCEPT ![i] = FreshPool],
               poolEntropy |-> [d.poolEntropy EXCEPT ![i] = 0],
               strength |-> d.strength,
               drained |-> d.drained \cup {i}],
              LAMBDA d1 :
                IF ~full /\ BitSet(this.reseedCount, i) THEN d1
                ELSE DrainFromUncredited(this, full, i + 1, d1))

RECURSIVE DrainFrom(_, _, _, _)
\* the pool loop of _reseedFromPools from index i on; d.strength accumulates
DrainFrom(this, full, i, d) ==
    IF i >= ALen(this.pools) THEN d
    ELSE Then([pools |-> [d.pools EXCEPT ![i] = FreshPool],
               poolEntropy |-> [d.poolEntropy EXCEPT ![i] = 0],
               strength |-> d.strength + d.poolEntropy[i],
               drained |-> d.drained \cup {i}],
              LAMBDA d1 :
                IF ~full /\ BitSet(this.reseedCount, i) THEN d1
                ELSE DrainFrom(this, full, i + 1, d1))

\* A slip in the strength update: the working strength is overwritten by
\* the strength of the pools just drained
reseedFromPoolsOverwrite(r, full, t) ==
    LET this == r.this
    IN  Then(DrainFrom(this, full, 0,
                       [pools |-> this.pools, poolEntropy |-> this.poolEntropy,
                        strength |-> 0, drained |-> {}]),
             LAMBDA d :
      LET grow == this.reseedCount >= Pow2(ALen(this.pools))
          t1 == [this EXCEPT
                   !.nextReseed = t + MILLISECONDS_PER_RESEED,
                   !.pools = IF grow THEN APush(d.pools, FreshPool) ELSE d.pools,
                   !.poolEntropy = IF grow THEN APush(d.poolEntropy, 0)
                                   ELSE d.poolEntropy,
                   !.poolStrength = this.poolStrength - d.strength,
                   !.strength = d.strength,
                   !.reseedCount = this.reseedCount + 1]
      IN  [r EXCEPT !.this = reseed(t1, this.reseedCount + 1),
                    !.reseeds = @ + 1, !.full = full, !.outAtReseed = r.out,
                    !.drained = d.drained, !.last = "reseed"])

\* _reseedFromPools(full) at clock value t
reseedFromPools(r, full, t) ==
    LET this == r.this
    IN  Then(DrainFrom(this, full, 0,
                       [pools |-> this.pools, poolEntropy |-> this.poolEntropy,
                        strength |-> 0, drained |-> {}]),
             LAMBDA d :
      LET grow == this.reseedCount >= Pow2(ALen(this.pools))
          t1 == [this EXCEPT
                   !.nextReseed = t + MILLISECONDS_PER_RESEED,
                   !.pools = IF grow THEN APush(d.pools, FreshPool) ELSE d.pools,
                   !.poolEntropy = IF grow THEN APush(d.poolEntropy, 0)
                                   ELSE d.poolEntropy,
                   !.poolStrength = this.poolStrength - d.strength,
                   !.strength = IF d.strength > this.strength THEN d.strength
                                ELSE this.strength,
                   !.reseedCount = this.reseedCount + 1]
      IN  [r EXCEPT !.this = reseed(t1, this.reseedCount + 1),
                    !.reseeds = @ + 1, !.full = full, !.outAtReseed = r.out,
                    !.drained = d.drained, !.last = "reseed"])

(* ------------------------------------------------------------------ *)
(* randomWords                                                        *)
(* ------------------------------------------------------------------ *)

\* one iteration of the generation loop, at loop index i
LoopBody(r, i) ==
    Then(IF (i + 1) % MAX_WORDS_PER_BURST = 0 THEN gate(r) ELSE r, LAMBDA r1 :
    Then(gen4words(r1), LAMBDA r2 :
      IF r2.threw # "none" THEN r2
      ELSE [r2 EXCEPT !.out = @ + 4,
                      !.outKeys = @ \cup {r2.g.key},
                      !.since = @ + 4,
                      !.maxBurst = Max(@, r2.since + 4),
                      !.last = "gen"]))

RECURSIVE Loop(_, _, _)
\* iterations lo..hi-1 of for (i=0; i<nwords; i+=4), iteration k at i = 4k,
\* run in order (the range is halved, and the first half is evaluated
\* before the second starts, to keep the evaluation shallow)
Loop(r, lo, hi) ==
    IF hi <= lo THEN r
    ELSE IF hi = lo + 1 THEN LoopBody(r, 4 * lo)
    ELSE LET mid == (lo + hi) \div 2
         IN  Then(Loop(r, lo, mid), LAMBDA r1 : Loop(r1, mid, hi))

\* A seeding slip: every readiness without the READY bit is refused
AdmitReadyOnly(r, readiness, t) ==
    IF ~HasFlag(readiness, READY)
    THEN [r EXCEPT !.threw = "notReady"]
    ELSE IF HasFlag(readiness, REQUIRES_RESEED)
         THEN reseedFromPools(r, FALSE, t)
         ELSE r

\* A seeding slip: the reseed is asked for only when the generator is not READY
AdmitLateReseed(r, readiness, t) ==
    IF readiness = NOT_READY
    THEN [r EXCEPT !.threw = "notReady"]
    ELSE IF readiness = REQUIRES_RESEED
         THEN reseedFromPools(r, TRUE, t)
         ELSE r

\* A seeding slip: nothing is refused, and a reseed happens only on demand
AdmitUnchecked(r, readiness, t) ==
    IF HasFlag(readiness, REQUIRES_RESEED)
    THEN reseedFromPools(r, ~HasFlag(readiness, READY), t)
    ELSE r

\* the readiness check of randomWords: throw, reseed (fully when not READY)
\* or go on
Admit(r, readiness, t) ==
    IF readiness = NOT_READY
    THEN [r EXCEPT !.threw = "notReady"]
    ELSE IF HasFlag(readiness, REQUIRES_RESEED)
         THEN reseedFromPools(r, ~HasFlag(readiness, READY), t)
         ELSE r

\* A slip at the end of randomWords: the output is returned without the gate
FinishNoGate(r, nwords) ==
    IF r.threw # "none" THEN r
    ELSE [r EXCEPT !.ret = Min(nwords, r.out)]

\* the end of randomWords: this._gate(); return out.slice(0,nwords)
Finish(r, nwords) ==
    Then(gate(r), LAMBDA r3 :
      IF r3.threw # "none" THEN r3
      ELSE [r3 EXCEPT !.ret = Min(nwords, r3.out)])

\* randomWords(nwords, paranoia) at clock value t
randomWords(this, nwords, paranoia, t) ==
    Then(Admit(Begin(this), isReady(this, paranoia, t), t), LAMBDA r1 :
      IF r1.threw # "none" THEN r1
      ELSE Then(Loop(r1, 0, (nwords + 3) \div 4), LAMBDA r2 :
             Finish(r2, nwords)))

(* ------------------------------------------------------------------ *)
(* Event dispatcher                                                   *)
(* ------------------------------------------------------------------ *)

EventNames == {"progress", "seeded"}

\* The callables the host registers.  What each does when it is invoked:
\*   "plain" nothing; "once" unregisters itself; "drop" unregisters "plain";
\*   "more" registers "plain".
Listeners == {"plain", "once", "drop", "more"}

ListenerCalls(cb) ==
    CASE cb = "plain" -> <<>>
      [] cb = "once"  -> <<[op |-> "remove", name |-> "seeded", cb |-> "once"],
                           [op |-> "remove", name |-> "progress", cb |-> "once"]>>
      [] cb = "drop"  -> <<[op |-> "remove", name |-> "seeded", cb |-> "plain"],
                           [op |-> "remove", name |-> "progress", cb |-> "plain"]>>
      [] cb = "more"  -> <<[op |-> "add", name |-> "seeded", cb |-> "plain"],
                           [op |-> "add", name |-> "progress", cb |-> "plain"]>>

\* addEventListener(name, callback)
addEventListener(this, name, callback) ==
    [this EXCEPT !.callbacks[name] = Put(@, this.callbackI, callback),
                 !.callbackI = @ + 1]

\* A slip in removeEventListener: only the latest registration of cb goes
removeLatestListener(this, name, cb) ==
    LET cbs == this.callbacks[name]
        jsTemp == {j \in DOMAIN cbs : cbs[j] = cb}
        latest == {j \in jsTemp : \A k \in jsTemp : k <= j}
    IN  [this EXCEPT !.callbacks[name] = [j \in DOMAIN cbs \ latest |-> cbs[j]]]

\* removeEventListener(name, cb)
removeEventListener(this, name, cb) ==
    LET cbs == this.callbacks[name]
        jsTemp == {j \in DOMAIN cbs : cbs[j] = cb}
    IN  [this EXCEPT !.callbacks[name] = [j \in DOMAIN cbs \ jsTemp |-> cbs[j]]]

RECURSIVE Invoke(_, _, _)
\* the body of a listener: its registry calls from the k-th on
Invoke(this, calls, k) ==
    IF k > Len(calls) THEN this
    ELSE LET c == calls[k]
         IN  Then(IF c.op = "add" THEN addEventListener(this, c.name, c.cb)
                  ELSE removeEventListener(this, c.name, c.cb),
                  LAMBDA t : Invoke(t, calls, k + 1))

RECURSIVE KeysInOrder(_)
\* for (j in cbs): the integer keys in ascending order
KeysInOrder(keys) ==
    IF keys = {} THEN <<>>
    ELSE LET m == CHOOSE x \in keys : \A y \in keys : x <= y
         IN  <<m>> \o KeysInOrder(keys \ {m})

\* the first loop of _fireEvent: cbsTemp
Snapshot(cbs) ==
    LET ks == KeysInOrder(DOMAIN cbs)
    IN  [i \in 1..Len(ks) |-> cbs[ks[i]]]

RECURSIVE CallAll(_, _, _, _)
\* the second loop of _fireEvent from index j on: cbsTemp[j](arg)
CallAll(r, cbsTemp, j, d) ==
    IF j > Len(cbsTemp) THEN [r EXCEPT !.fired = Append(@, d)]
    ELSE Then([r EXCEPT !.this = Invoke(@, ListenerCalls(cbsTemp[j]), 1)],
              LAMBDA r1 :
         Then([d EXCEPT !.called = Append(@, cbsTemp[j])], LAMBDA d1 :
           CallAll(r1, cbsTemp, j + 1, d1)))

RECURSIVE CallLive(_, _, _, _, _)
\* listeners called while iterating over the registry itself: an entry
\* deleted by an earlier listener of the same dispatch is skipped
CallLive(r, name, keys, j, d) ==
    IF j > Len(keys) THEN [r EXCEPT !.fired = Append(@, d)]
    ELSE IF keys[j] \notin DOMAIN r.this.callbacks[name]
         THEN CallLive(r, name, keys, j + 1, d)
         ELSE Then([r EXCEPT !.this =
                        Invoke(@, ListenerCalls(r.this.callbacks[name][keys[j]]), 1)],
                   LAMBDA r1 :
              Then([d EXCEPT !.called = Append(@, r.this.callbacks[name][keys[j]])],
                   LAMBDA d1 : CallLive(r1, name, keys, j + 1, d1)))

\* A slip in _fireEvent: no snapshot is taken
fireEventLive(r, name, arg) ==
    LET cbs == r.this.callbacks[name]
    IN  Then(KeysInOrder(DOMAIN cbs), LAMBDA keys :
          CallLive(r, name, keys, 1,
                   [name |-> name, arg |-> arg, cbs |-> cbs, called |-> <<>>]))

\* _fireEvent(name, arg)
fireEvent(r, name, arg) ==
    LET cbs == r.this.callbacks[name]
    IN  Then(Snapshot(cbs), LAMBDA cbsTemp :
          CallAll(r, cbsTemp, 1,
                  [name |-> name, arg |-> arg, cbs |-> cbs, called |-> <<>>]))

(* ------------------------------------------------------------------ *)
(* Entropy router                                                     *)
(* ------------------------------------------------------------------ *)

RECURSIVE BitLen(_)
\* while (tmp>0) { estimatedEntropy++; tmp = tmp >>> 1; }
BitLen(tmp) == IF tmp > 0 THEN 1 + BitLen(tmp \div 2) ELSE 0

RECURSIVE SumBitLen(_, _)
\* the "horrible entropy estimator" over data[i..]
SumBitLen(elems, i) ==
    IF i > Len(elems) THEN 0
    ELSE BitLen(elems[i].v) + SumBitLen(elems, i + 1)

\* typeof(data[i]) !== "number" for some i
HasNonNumber(elems) == \E i \in 1..Len(elems) : ~elems[i].isnum

\* the switch of addEntropy: the error flag, the estimate used and the
\* number of update() calls made on the pool
Classify(data, estimatedEntropy) ==
    CASE data.type = "number" ->
           [err |-> FALSE, updates |-> 1,
            est |-> IF estimatedEntropy = undefined THEN 1 ELSE estimatedEntropy]
      [] data.type = "uint32array" ->
           [err |-> FALSE, updates |-> 1,
            est |-> IF estimatedEntropy = undefined THEN SumBitLen(data.elems, 1)
                    ELSE estimatedEntropy]
      [] data.type = "array" ->
           IF HasNonNumber(data.elems)
           THEN [err |-> TRUE, updates |-> 0, est |-> 0]
           ELSE [err |-> FALSE, updates |-> 1,
                 est |-> IF estimatedEntropy = undefined
                         THEN SumBitLen(data.elems, 1) ELSE estimatedEntropy]
      [] data.type = "object" ->
           [err |-> TRUE, updates |-> 0, est |-> 0]
      [] data.type = "string" ->
           [err |-> FALSE, updates |-> 2,
            est |-> IF estimatedEntropy = undefined THEN Len(data.elems)
                    ELSE estimatedEntropy]
      [] OTHER ->
           [err |-> TRUE, updates |-> 0, est |-> 0]

\* A slip in the events: "seeded" fires whenever the generator is not
\* NOT_READY after the submission
notifyEverySeeded(r, oldReady, t) ==
    Then(IF isReady(r.this, undefined, t) # NOT_READY
         THEN fireEvent(r, "seeded",
                Frac(Max(r.this.strength, r.this.poolStrength), 1))
         ELSE r,
         LAMBDA r3 :
           IF oldReady = NOT_READY
           THEN fireEvent(r3, "progress", getProgress(r3.this, undefined))
           ELSE r3)

\* A slip in the events: "progress" fires before "seeded"
notifyProgressFirst(r, oldReady, t) ==
    IF oldReady = NOT_READY
    THEN Then(fireEvent(r, "progress", getProgress(r.this, undefined)),
              LAMBDA r3 :
                IF isReady(r3.this, undefined, t) # NOT_READY
                THEN fireEvent(r3, "seeded",
                       Frac(Max(r3.this.strength, r3.this.poolStrength), 1))
                ELSE r3)
    ELSE r

\* "fire off events", the end of addEntropy
notify(r, oldReady, t) ==
    IF oldReady = NOT_READY
    THEN Then(IF isReady(r.this, undefined, t) # NOT_READY
              THEN fireEvent(r, "seeded",
                     Frac(Max(r.this.strength, r.this.poolStrength), 1))
              ELSE r,
              LAMBDA r3 :
                fireEvent(r3, "progress", getProgress(r3.this, undefined)))
    ELSE r

\* A routing slip: the robin is advanced without wrapping
nextRobinUnwrapped(this, robin) == robin + 1

\* A routing slip: the robin is not advanced
nextRobinStuck(this, robin) == robin

\* ( this._robins[source] + 1 ) % this._pools.length
nextRobin(this, robin) == (robin + 1) % ALen(this.pools)

\* addEntropy(data, estimatedEntropy, source) at clock value t
addEntropy(this, data, estimatedEntropy, source0, t) ==
    LET source == IF source0 = "" THEN "user" ELSE source0
        robin0 == Get(this.robins, source)
        oldReady == isReady(this, undefined, t)
        newId == Get(this.collectorIds, source) = undefined
        robin == IF robin0 = undefined THEN 0 ELSE robin0
        c == Classify(data, estimatedEntropy)
    IN  Then([this EXCEPT
                !.collectorIds = IF newId THEN Put(@, source, this.collectorIdNext)
                                 ELSE @,
                !.collectorIdNext = IF newId THEN @ + 1 ELSE @,
                !.robins = Put(@, source, nextRobin(this, robin))],
             LAMBDA t1 :
        Then([Begin(t1) EXCEPT !.oldReady = oldReady, !.robin = robin],
             LAMBDA r1 :
          IF c.err
          THEN [r1 EXCEPT !.threw = "bug"]
          ELSE Then([t1 EXCEPT !.pools[robin] = @ + c.updates,
                               !.eventId = @ + 1,
                               !.poolEntropy[robin] = @ + c.est,
                               !.poolStrength = @ + c.est],
                    LAMBDA t2 :
               Then([r1 EXCEPT !.this = t2, !.est = c.est], LAMBDA r2 :
                 notify(r2, oldReady, t)))))

(* ------------------------------------------------------------------ *)
(* Construction                                                       *)
(* ------------------------------------------------------------------ *)

\* the fields set by the constructor, before init()
New(paranoia) ==
    [pools |-> [i \in {0} |-> FreshPool],
     poolEntropy |-> [i \in {0} |-> 0],
     reseedCount |-> 0,
     robins |-> EmptyObj,
     eventId |-> 0,
     collectorIds |-> EmptyObj,
     collectorIdNext |-> 0,
     strength |-> 0,
     poolStrength |-> 0,
     nextReseed |-> 0,
     key |-> ZeroKey,
     counter |-> [i \in 0..3 |-> 0],
     cipher |-> NoCipher,
     defaultParanoia |-> IF paranoia = undefined \/ paranoia = 0 THEN 6
                         ELSE paranoia,
     callbacks |-> [progress |-> EmptyObj, seeded |-> EmptyObj],
     callbackI |-> 0]

\* a word of _platformPRNG() and a host string, as addEntropy data
Word == [type |-> "number", elems |-> <<[isnum |-> TRUE, v |-> 7]>>]

Text == [type |-> "string", elems |-> <<[isnum |-> FALSE, v |-> 0]>>]

RECURSIVE InitWords(_, _, _, _)
\* iterations lo..hi-1 of
\*   for(x=0; x<48; x++) this.addEntropy(this._platformPRNG(), 1, "init")
\* run in order (the range is halved, and the first half is evaluated
\* before the second starts, to keep the evaluation shallow)
InitWords(this, lo, hi, t) ==
    IF hi <= lo THEN this
    ELSE IF hi = lo + 1 THEN addEntropy(this, Word, 1, "init", t).this
    ELSE LET mid == (lo + hi) \div 2
         IN  Then(InitWords(this, lo, mid, t),
                  LAMBDA t1 : InitWords(t1, mid, hi, t))

\* init() in a window (not a worker); saved: localStorage holds "sjcl.prng"
init(this, saved, t) ==
    Then(InitWords(this, 0, 48, t), LAMBDA t1 :
    Then(addEntropy(t1, Text, 0, "cookie", t).this, LAMBDA t2 :
    Then(addEntropy(t2, Text, 0, "location", t).this, LAMBDA t3 :
      IF saved THEN addEntropy(t3, Text, 0, "loadpool", t).this ELSE t3)))

(* ------------------------------------------------------------------ *)
(* State                                                              *)
(* ------------------------------------------------------------------ *)

VARIABLES
    pools, poolEntropy, reseedCount, robins, eventId,
    collectorIds, collectorIdNext,
    strength, poolStrength, nextReseed, key, counter, cipher,
    defaultParanoia, callbacks, callbackI,
    now,    \* (new Date()).valueOf()
    call    \* the last public call: its arguments and what it did

fields == <<pools, poolEntropy, reseedCount, robins, eventId,
            collectorIds, collectorIdNext,
            strength, poolStrength, nextReseed, key, counter, cipher,
            defaultParanoia, callbacks, callbackI>>

vars == <<fields, now, call>>

\* the generator object in the current state
This ==
    [pools |-> pools, poolEntropy |-> poolEntropy, reseedCount |-> reseedCount,
     robins |-> robins, eventId |-> eventId, collectorIds |-> collectorIds,
     collectorIdNext |-> collectorIdNext, strength |-> strength,
     poolStrength |-> poolStrength, nextReseed |-> nextReseed, key |-> key,
     counter |-> counter, cipher |-> cipher,
     defaultParanoia |-> defaultParanoia, callbacks |-> callbacks,
     callbackI |-> callbackI]

\* the generator object in the next state
Next_This ==
    [pools |-> pools', poolEntropy |-> poolEntropy', reseedCount |-> reseedCount',
     robins |-> robins', eventId |-> eventId', collectorIds |-> collectorIds',
     collectorIdNext |-> collectorIdNext', strength |-> strength',
     poolStrength |-> poolStrength', nextReseed |-> nextReseed', key |-> key',
     counter |-> counter', cipher |-> cipher',
     defaultParanoia |-> defaultParanoia', callbacks |-> callbacks',
     callbackI |-> callbackI']

\* the object's fields become those of t
Becomes(t) ==
    /\ pools' = t.pools
    /\ poolEntropy' = t.poolEntropy
    /\ reseedCount' = t.reseedCount
    /\ robins' = t.robins
    /\ eventId' = t.eventId
    /\ collectorIds' = t.collectorIds
    /\ collectorIdNext' = t.collectorIdNext
    /\ strength' = t.strength
    /\ poolStrength' = t.poolStrength
    /\ nextReseed' = t.nextReseed
    /\ key' = t.key
    /\ counter' = t.counter
    /\ cipher' = t.cipher
    /\ defaultParanoia' = t.defaultParanoia
    /\ callbacks' = t.callbacks
    /\ callbackI' = t.callbackI

\* what a call did, without the object itself: r is the finished call, n its
\* nwords, p the paranoia given to a query or to setDefaultParanoia, res the
\* readiness the call found (or returned), progress the fraction returned
Done(op, r, n, p, res, progress) ==
    [op |-> op, threw |-> r.threw, n |-> n, ret |-> r.ret, out |-> r.out,
     outKeys |-> r.outKeys, gates |-> r.gates, since |-> r.since,
     maxBurst |-> r.maxBurst, reseeds |-> r.reseeds, full |-> r.full,
     outAtReseed |-> r.outAtReseed, drained |-> r.drained, last |-> r.last,
     fired |-> r.fired, oldReady |-> r.oldReady, robin |-> r.robin,
     est |-> r.est, p |-> p, res |-> res, progress |-> progress]

(* ------------------------------------------------------------------ *)
(* Inputs                                                             *)
(* ------------------------------------------------------------------ *)

\* the clock when the generator is constructed
StartTime == 1

Paranoias == 0..10

ParanoiaArgs == Paranoias \cup {undefined}

\* paranoia levels the host sets as the default
DefaultChoices == {0, 6}

\* paranoia arguments of the host's isReady and getProgress calls
QueryChoices == {undefined, 0, 1, 6}

\* nwords
NWords == {0, 5}

\* nwords around MAX_WORDS_PER_BURST
BurstWords == {MAX_WORDS_PER_BURST, MAX_WORDS_PER_BURST + 1}

\* estimatedEntropy
Estimates == {undefined, 208}

\* whether localStorage holds a saved pool at construction (a first visit)
SavedPools == {FALSE}

\* source ("" when omitted)
Sources == {"", "ext"}

Num(v) == [isnum |-> TRUE, v |-> v]

Str == [isnum |-> FALSE, v |-> 0]

\* a boolean, which addEntropy refuses
Flag == [type |-> "boolean", elems |-> <<>>]

\* estimatedEntropy of a submission that lets one pool trigger a reseed
RoundBits == 81

\* data
DataValues ==
    { [type |-> "number", elems |-> <<Num(5)>>],
      [type |-> "array", elems |-> <<Num(1), Str>>],
      [type |-> "string", elems |-> <<Str, Str, Str, Str>>],
      [type |-> "boolean", elems |-> <<>>] }

(* ------------------------------------------------------------------ *)
(* Initial state and actions                                          *)
(* ------------------------------------------------------------------ *)

\* new sjcl.prng(paranoia) in a window
Init ==
    /\ now = StartTime
    /\ \E paranoia \in {undefined, 6}, saved \in SavedPools :
       \E t \in {init(New(paranoia), saved, StartTime)} :
             /\ pools = t.pools
             /\ poolEntropy = t.poolEntropy
             /\ reseedCount = t.reseedCount
             /\ robins = t.robins
             /\ eventId = t.eventId
             /\ collectorIds = t.collectorIds
             /\ collectorIdNext = t.collectorIdNext
             /\ strength = t.strength
             /\ poolStrength = t.poolStrength
             /\ nextReseed = t.nextReseed
             /\ key = t.key
             /\ counter = t.counter
             /\ cipher = t.cipher
             /\ defaultParanoia = t.defaultParanoia
             /\ callbacks = t.callbacks
             /\ callbackI = t.callbackI
             /\ call = Done("new", Begin(t), 0, undefined, NOT_READY, One)

\* addEntropy calls accepted since construction
Adds == eventId - (IF "loadpool" \in DOMAIN collectorIds THEN 51 ELSE 50)

AddEntropy(data, estimatedEntropy, source) ==
    /\ Adds < MaxAdds
    /\ \E r \in {addEntropy(This, data, estimatedEntropy, source, now)} :
           /\ Becomes(r.this)
           /\ call' = Done("addEntropy", r, 0, undefined, r.oldReady, One)
    /\ UNCHANGED now

RandomWords(nwords, paranoia) ==
    /\ counter[0] < MaxBlocks
    /\ \E r \in {randomWords(This, nwords, paranoia, now)} :
           /\ Becomes(r.this)
           /\ call' = Done("randomWords", r, nwords, undefined,
                           isReady(This, paranoia, now), One)
    /\ UNCHANGED now

SetDefaultParanoia(paranoia) ==
    /\ Becomes([This EXCEPT !.defaultParanoia = paranoia])
    /\ call' = Done("setDefaultParanoia", Begin(This), 0, paranoia, NOT_READY, One)
    /\ UNCHANGED now

IsReady(paranoia) ==
    /\ call' = Done("isReady", Begin(This), 0, paranoia,
                    isReady(This, paranoia, now), One)
    /\ UNCHANGED <<fields, now>>

GetProgress(paranoia) ==
    /\ call' = Done("getProgress", Begin(This), 0, paranoia, NOT_READY,
                    getProgress(This, paranoia))
    /\ UNCHANGED <<fields, now>>

AddEventListener(name, cb) ==
    /\ callbackI < MaxListeners
    /\ Becomes(addEventListener(This, name, cb))
    /\ call' = Done("addEventListener", Begin(This), 0, undefined, NOT_READY, One)
    /\ UNCHANGED now

RemoveEventListener(name, cb) ==
    /\ Becomes(removeEventListener(This, name, cb))
    /\ call' = Done("removeEventListener", Begin(This), 0, undefined, NOT_READY, One)
    /\ UNCHANGED now

\* time passes: up to the reseed deadline, or just past it
Tick ==
    /\ \E t \in {nextReseed, nextReseed + 1} : t > now /\ now' = t
    /\ UNCHANGED <<fields, call>>

\* addEntropy while pool 0 cannot yet trigger a reseed, over many reseeds
Feed(data, estimatedEntropy, source) ==
    /\ reseedCount < MaxReseeds
    /\ poolEntropy[0] <= BITS_PER_RESEED
    /\ \E r \in {addEntropy(This, data, estimatedEntropy, source, now)} :
           /\ Becomes(r.this)
           /\ call' = Done("addEntropy", r, 0, undefined, r.oldReady, One)
    /\ UNCHANGED now

RECURSIVE roundFrom(_, _, _, _)
\* the host submits k more times in a row from source "ext", RoundBits bits
\* each; with mix, source "user" submits once (0 bits) after the first
roundFrom(this, k, mix, t) ==
    IF k = 0 THEN this
    ELSE Then(addEntropy(this, Word, RoundBits, "ext", t).this, LAMBDA t1 :
         Then(IF mix THEN addEntropy(t1, Word, 0, "", t).this ELSE t1,
              LAMBDA t2 : roundFrom(t2, k - 1, FALSE, t)))

\* one submission per pool, in a row, from source "ext"
Round(mix) ==
    /\ reseedCount < MaxReseeds
    /\ poolEntropy[0] <= BITS_PER_RESEED
    /\ Becomes(roundFrom(This, ALen(pools), mix, now))
    /\ call' = Done("round", Begin(This), 0, undefined, NOT_READY, One)
    /\ UNCHANGED now

\* randomWords(0, paranoia) when a reseed is due, over many reseeds
Draw(paranoia) ==
    /\ reseedCount < MaxReseeds
    /\ HasFlag(isReady(This, paranoia, now), REQUIRES_RESEED)
    /\ \E r \in {randomWords(This, 0, paranoia, now)} :
           /\ Becomes(r.this)
           /\ call' = Done("randomWords", r, 0, undefined,
                           isReady(This, paranoia, now), One)
    /\ UNCHANGED now

\* word 0 of the counter is within MaxBlocks of 0 or of the 32-bit wrap
NearEdge(w) ==
    \/ (-MaxBlocks <= w /\ w <= MaxBlocks)
    \/ w >= 2147483647 - MaxBlocks
    \/ w <= (-2147483647) + MaxBlocks

\* randomWords(nwords, paranoia) while word 0 of the counter is near an edge
Generate(nwords, paranoia) ==
    /\ NearEdge(counter[0])
    /\ \E r \in {randomWords(This, nwords, paranoia, now)} :
           /\ Becomes(r.this)
           /\ call' = Done("randomWords", r, nwords, undefined,
                           isReady(This, paranoia, now), One)
    /\ UNCHANGED now

\* The generator and its host: entropy submissions, output requests, queries
Next ==
    \/ \E d \in DataValues, e \in Estimates, s \in Sources : AddEntropy(d, e, s)
    \/ \E n \in NWords, p \in ParanoiaArgs : RandomWords(n, p)
    \/ \E p \in DefaultChoices : SetDefaultParanoia(p)
    \/ \E p \in QueryChoices : IsReady(p)
    \/ \E p \in QueryChoices : GetProgress(p)
    \/ Tick

Spec == Init /\ [][Next]_vars

\* The generator with listeners: registrations, removals and the submissions
\* that fire events
NextEvents ==
    \/ \E name \in EventNames, cb \in Listeners : AddEventListener(name, cb)
    \/ \E name \in EventNames, cb \in Listeners : RemoveEventListener(name, cb)
    \/ \E e \in Estimates : AddEntropy(Word, e, "")
    \/ \E p \in {0, 1} : RandomWords(0, p)

SpecEvents == Init /\ [][NextEvents]_vars

\* Long output requests
NextBurst ==
    \/ \E n \in BurstWords, p \in {undefined, 0} : RandomWords(n, p)
    \/ \E e \in Estimates, s \in Sources : AddEntropy(Word, e, s)
    \/ \E p \in DefaultChoices : SetDefaultParanoia(p)
    \/ Tick

SpecBurst == Init /\ [][NextBurst]_vars

\* A long session: submissions, the clock and requests that reseed
NextSchedule ==
    \/ Feed(Word, RoundBits, "")
    \/ Feed(Flag, RoundBits, "ext")
    \/ \E p \in {1, 6} : Draw(p)
    \/ Tick

SpecSchedule == Init /\ [][NextSchedule]_vars

\* A long session in which a source submits in rounds over the pools
NextRound ==
    \/ \E mix \in BOOLEAN : Round(mix)
    \/ Feed(Flag, RoundBits, "ext")
    \/ \E p \in {1, 6} : Draw(p)
    \/ Tick

SpecRound == Init /\ [][NextRound]_vars

\* counter words a long-running generator has reached after a request: at
\* 0, about to carry, and at the signed 32-bit edge
EdgeWords == {0, -1, -2, 2147483647, 2147483646}

\* a generator that has served requests for a long time: seeded, last gated
\* at a counter whose words are edge words
InitCounter ==
    /\ now = StartTime
    /\ \E w0 \in EdgeWords, w1 \in {0, -1, 2147483647}, w23 \in {0, -1} :
       \E t0 \in {randomWords(init(New(undefined), FALSE, StartTime),
                              0, 1, StartTime).this} :
       \E c \in {[i \in 0..3 |-> IF i = 0 THEN w0 ELSE IF i = 1 THEN w1 ELSE w23]} :
       \E k \in {GateKey(Encrypt(t0.cipher, c), Encrypt(t0.cipher, IncCounter(c)))} :
       \E t \in {[t0 EXCEPT !.counter = IncCounter(c), !.key = k,
                            !.cipher = Aes(k)]} :
             /\ pools = t.pools
             /\ poolEntropy = t.poolEntropy
             /\ reseedCount = t.reseedCount
             /\ robins = t.robins
             /\ eventId = t.eventId
             /\ collectorIds = t.collectorIds
             /\ collectorIdNext = t.collectorIdNext
             /\ strength = t.strength
             /\ poolStrength = t.poolStrength
             /\ nextReseed = t.nextReseed
             /\ key = t.key
             /\ counter = t.counter
             /\ cipher = t.cipher
             /\ defaultParanoia = t.defaultParanoia
             /\ callbacks = t.callbacks
             /\ callbackI = t.callbackI
             /\ call = Done("new", Begin(t), 0, undefined, NOT_READY, One)

\* A generator late in its life: requests, submissions and the clock
NextCounter ==
    \/ \E n \in NWords, p \in {undefined, 1} : Generate(n, p)
    \/ \E e \in Estimates : AddEntropy(Word, e, "")
    \/ Tick

SpecCounter == InitCounter /\ [][NextCounter]_vars

(* ------------------------------------------------------------------ *)
(* Properties                                                         *)
(* ------------------------------------------------------------------ *)

\* the last call was randomWords / a randomWords that returned
CalledRandomWords == call.op = "randomWords"

Returned == CalledRandomWords /\ call.threw = "none"

\* the entropy a paranoia argument asks for
Need(p) == PARANOIA_LEVELS[IF p = undefined THEN defaultParanoia ELSE p]

\* C1 as stated: randomWords(n, p) fails with NotReady and produces no output
\* whenever the readiness it finds has the READY bit clear (NOT_READY and
\* REQUIRES_RESEED|NOT_READY alike).
C1_FailsWheneverNotReady ==
    (CalledRandomWords /\ ~HasFlag(call.res, READY))
        => (call.threw = "notReady" /\ call.out = 0 /\ call.ret = 0)

\* C1 amended: randomWords fails with NotReady, producing no output and doing
\* no reseed or gate, exactly when the readiness it finds is NOT_READY (0); on
\* REQUIRES_RESEED|NOT_READY (2) it does not fail: it reseeds from all pools
\* and returns the nwords words.
C1_NotReadyFails ==
    CalledRandomWords =>
        /\ (call.threw = "notReady") <=> (call.res = NOT_READY)
        /\ call.res = NOT_READY =>
              (call.out = 0 /\ call.ret = 0 /\ call.gates = 0 /\ call.reseeds = 0)
        /\ call.res = REQUIRES_RESEED + NOT_READY =>
              (call.threw = "none" /\ call.reseeds = 1 /\ call.full
               /\ call.ret = call.n)

C1_Witness ==
    CalledRandomWords /\ call.res = NOT_READY /\ call.threw = "notReady"

\* what C2 says isReady returns for need bits, as stated
C2_Stated(need) ==
    IF strength >= need
    THEN IF poolEntropy[0] > 80 /\ now > nextReseed
         THEN REQUIRES_RESEED + READY ELSE READY
    ELSE IF poolStrength >= need THEN REQUIRES_RESEED + NOT_READY
         ELSE NOT_READY

\* C2 as stated: for every paranoia p (given or omitted) isReady(p) has the
\* READY bit iff workingStrength >= need, workingStrength = 0 with need = 0
\* included; then it is REQUIRES_RESEED|READY exactly when poolBits[0] > 80 and
\* now > nextReseed; otherwise REQUIRES_RESEED|NOT_READY iff poolStrength >= need.
C2_ReadyIffStrength ==
    \A p \in ParanoiaArgs : isReady(This, p, now) = C2_Stated(Need(p))

\* what isReady returns for need bits, with a working strength of 0 never READY
C2_Amended(need) ==
    IF strength > 0 /\ strength >= need
    THEN IF poolEntropy[0] > 80 /\ now > nextReseed
         THEN REQUIRES_RESEED + READY ELSE READY
    ELSE IF poolStrength >= need THEN REQUIRES_RESEED + NOT_READY
         ELSE NOT_READY

\* C2 amended: isReady(p) has the READY bit iff workingStrength > 0 and
\* workingStrength >= need (with workingStrength = 0 and need = 0 it returns
\* REQUIRES_RESEED|NOT_READY); when READY it is REQUIRES_RESEED|READY exactly
\* when poolBits[0] > 80 and now > nextReseed; otherwise it is
\* REQUIRES_RESEED|NOT_READY if poolStrength >= need, else NOT_READY.
C2_ReadyIffPositiveStrength ==
    \A p \in ParanoiaArgs : isReady(This, p, now) = C2_Amended(Need(p))

C2_Witness ==
    /\ call.op = "isReady" /\ call.p = undefined
    /\ defaultParanoia = 0 /\ strength = 0
    /\ call.res = REQUIRES_RESEED + NOT_READY

\* C3: within a randomWords call at most MAX_WORDS_PER_BURST output words are
\* generated between two consecutive gates, so a call for more words than
\* that gates at least once before its final gate.
C3_BurstBounded ==
    Returned =>
        /\ call.maxBurst <= MAX_WORDS_PER_BURST
        /\ call.n > MAX_WORDS_PER_BURST => call.gates >= 2

\* C4: a randomWords(n, p) call that does not fail returns exactly n words
\* (n = 0 included) and ends with a gate after its last output block: the key
\* is the one derived from the last two blocks generated, the cipher is
\* instantiated with it, and no output block of the call was produced under it.
C4_FinalGate ==
    Returned =>
        /\ call.ret = call.n
        /\ call.gates >= 1 /\ call.last = "gate" /\ call.since = 0
        /\ key.src = "gate" /\ counter = IncCounter(key.ctr)
        /\ cipher = Aes(key)
        /\ key \notin call.outKeys

C4_Witness == Returned /\ call.n = 0 /\ call.ret = 0 /\ call.gates = 1

\* C5: in a randomWords call that produces output a reseed is performed iff
\* the readiness found at the start has the REQUIRES_RESEED bit; it is then
\* performed once and is complete (pool 0 drained, reseedCount incremented,
\* key and cipher replaced, counter advanced) before the first output block,
\* which is generated under the reseeded key.
C5_ReseedFirst ==
    [][(call'.op = "randomWords" /\ call'.threw = "none" /\ counter' # counter) =>
         /\ call'.reseeds = IF HasFlag(call'.res, REQUIRES_RESEED) THEN 1 ELSE 0
         /\ call'.reseeds = 1 =>
              /\ call'.outAtReseed = 0
              /\ reseedCount' = reseedCount + 1
              /\ 0 \in call'.drained
              /\ nextReseed' = now + MILLISECONDS_PER_RESEED
              /\ \A k \in call'.outKeys :
                    k = SeedKey(reseedCount', counter) /\ k # key
              /\ call'.out = 4 * ((call'.n + 3) \div 4)
         /\ call'.reseeds = 0 =>
              /\ reseedCount' = reseedCount /\ poolEntropy' = poolEntropy
              /\ \A k \in call'.outKeys : k = key
      ]_vars

C5_Witness ==
    /\ Returned /\ call.res = REQUIRES_RESEED + READY
    /\ call.reseeds = 1 /\ ~call.full /\ call.out > 0

\* how often callable c was invoked in a sequence of invocations
Times(called, c) == Cardinality({i \in 1..Len(called) : called[i] = c})

\* the registrations of callable c in a registry
Registrations(cbs, c) == Cardinality({k \in DOMAIN cbs : cbs[k] = c})

\* the dispatches of event name among the dispatches of a call
Fired(fired, name) == {i \in 1..Len(fired) : fired[i].name = name}

\* dispatch d invoked every listener once per registration it had when the
\* event fired, and nothing else
EachOnce(d) ==
    \A c \in Listeners : Times(d.called, c) = Registrations(d.cbs, c)

\* C6: an addEntropy call fires "seeded" exactly once when isReady() is
\* NOT_READY before the call and not NOT_READY after its accounting, and no
\* other call fires it; the dispatch invokes each registered "seeded" listener
\* once, and its argument is max(strength, poolStrength), which is at least
\* PARANOIA_LEVELS[defaultParanoia].
C6_SeededOnTransition ==
    [][/\ (call'.op = "addEntropy" /\ call'.threw = "none") =>
            LET s == Fired(call'.fired, "seeded")
                rose == /\ isReady(This, undefined, now) = NOT_READY
                        /\ isReady(Next_This, undefined, now') # NOT_READY
            IN  /\ Cardinality(s) = IF rose THEN 1 ELSE 0
                /\ \A i \in s :
                     /\ i = 1
                     /\ call'.fired[i].cbs = callbacks.seeded
                     /\ EachOnce(call'.fired[i])
                     /\ call'.fired[i].arg =
                            Frac(Max(strength', poolStrength'), 1)
                     /\ Max(strength', poolStrength') >=
                            PARANOIA_LEVELS[defaultParanoia']
       /\ (call'.op # "addEntropy" \/ call'.threw # "none") =>
            Fired(call'.fired, "seeded") = {}
      ]_vars

C6_Witness ==
    /\ call.op = "addEntropy" /\ Len(call.fired) = 2
    /\ call.fired[1].name = "seeded"
    /\ call.fired[1].called = <<"plain">>
    /\ poolStrength >= PARANOIA_LEVELS[defaultParanoia]

\* what C7 says getProgress() is after the submission
C7_Progress ==
    LET need == PARANOIA_LEVELS[defaultParanoia']
    IN  IF strength' >= need THEN One
        ELSE IF poolStrength' > need THEN One
        ELSE Frac(poolStrength', need)

\* C7: a successful addEntropy call made while isReady() is NOT_READY fires
\* "progress" exactly once, as the last event of the call (after "seeded" if
\* that fires), invoking each "progress" listener registered at that moment
\* once, with getProgress() of the state after the submission (1 in the call
\* that seeds the generator); a call made when isReady() is not NOT_READY
\* fires no "progress".
C7_ProgressWhileNotReady ==
    [][(call'.op = "addEntropy" /\ call'.threw = "none") =>
          LET f == call'.fired
              pr == Fired(f, "progress")
          IN  /\ Cardinality(pr) =
                    IF isReady(This, undefined, now) = NOT_READY THEN 1 ELSE 0
              /\ \A i \in pr :
                   /\ i = Len(f)
                   /\ EachOnce(f[i])
                   /\ Fired(f, "seeded") = {} => f[i].cbs = callbacks.progress
                   /\ f[i].arg = C7_Progress
                   /\ Fired(f, "seeded") # {} => f[i].arg = One
      ]_vars

C7_Witness ==
    /\ call.op = "addEntropy" /\ Len(call.fired) = 1
    /\ call.fired[1].name = "progress"
    /\ call.fired[1].called # <<>>
    /\ call.fired[1].arg # One

\* C8: an addEntropy call that signals the internal-bug error leaves
\* collectorIds, collectorIdNext, robins, eventId, pools, poolEntropy and
\* poolStrength as they were, and fires no event.
C8_FailedAddUnchanged ==
    [][(call'.op = "addEntropy" /\ call'.threw = "bug") =>
          /\ UNCHANGED <<collectorIds, collectorIdNext, robins, eventId,
                         pools, poolEntropy, poolStrength>>
          /\ call'.fired = <<>>
      ]_vars

\* what C9 says getProgress returns for need bits
C9_Stated(need) ==
    IF strength >= need THEN One
    ELSE IF poolStrength > need THEN One
    ELSE Frac(poolStrength, need)

\* C9: for every paranoia p given (0 included) or omitted, getProgress(p) is
\* 1 if strength >= PARANOIA_LEVELS[p], else 1 if poolStrength exceeds it,
\* else poolStrength / PARANOIA_LEVELS[p]; the result lies in [0, 1].
C9_ProgressAgainstNeed ==
    \A p \in ParanoiaArgs :
        /\ getProgress(This, p) = C9_Stated(Need(p))
        /\ 0 <= getProgress(This, p).num
        /\ getProgress(This, p).num <= getProgress(This, p).den

\* C10: a dispatch works on the listeners registered when the event fires
\* (the first event of a call sees the registry as it was before the call):
\* each of them is invoked once per registration even if it, or another
\* listener, removes it during the dispatch; a listener added during the
\* dispatch is not invoked for this event; and a listener that removed
\* itself is invoked for no later event of the call and is registered
\* nowhere when the call returns.
C10_SnapshotDispatch ==
    [][(call'.op = "addEntropy" /\ call'.fired # <<>>) =>
          LET f == call'.fired
          IN  /\ f[1].cbs = callbacks[f[1].name]
              /\ \A i \in 1..Len(f) :
                   /\ EachOnce(f[i])
                   /\ Times(f[i].called, "once") > 0 =>
                        /\ \A j \in (i + 1)..Len(f) :
                              Times(f[j].called, "once") = 0
                        /\ \A name \in EventNames :
                              Registrations(callbacks'[name], "once") = 0
      ]_vars

C10_Witness ==
    /\ call.op = "addEntropy" /\ call.fired # <<>>
    /\ call.fired[1].called = <<"drop", "plain">>
    /\ Registrations(callbacks[call.fired[1].name], "plain") = 0

\* the registry after addEventListener(name, f); removeEventListener(name, f)
AddThenRemove(name, f) ==
    removeEventListener(addEventListener(This, name, f), name, f).callbacks

\* C11 as stated: for every event name and callable f, registered already or
\* not, addEventListener(name, f) followed by removeEventListener(name, f)
\* leaves the listeners of both events as they were.
C11_AddRemoveRestores ==
    \A name \in EventNames, f \in Listeners :
        AddThenRemove(name, f) = callbacks

\* C11 amended: the pair leaves the other event's listeners untouched and
\* every listener other than f registered as before; f itself ends with no
\* registration under name, so the registry is restored exactly when f was
\* not registered under name before.
C11_AddRemoveDropsAll ==
    \A name \in EventNames, f \in Listeners :
        LET after == AddThenRemove(name, f)
        IN  /\ \A other \in EventNames \ {name} : after[other] = callbacks[other]
            /\ \A k \in DOMAIN callbacks[name] :
                   callbacks[name][k] # f =>
                       (k \in DOMAIN after[name]
                        /\ after[name][k] = callbacks[name][k])
            /\ Registrations(after[name], f) = 0
            /\ DOMAIN after[name] \subseteq DOMAIN callbacks[name]
            /\ Registrations(callbacks[name], f) = 0 => after = callbacks

C11_Witness ==
    \E name \in EventNames :
        /\ Registrations(callbacks[name], "plain") = 1
        /\ Registrations(callbacks[name], "once") = 1
        /\ AddThenRemove(name, "drop") = callbacks
        /\ AddThenRemove(name, "plain") # callbacks

\* C12: whatever was submitted, set as default and drawn before, a
\* randomWords(n, p) call that returns output has generated every block of
\* it under a key made by a reseed or a gate (never the initial key: at least
\* one reseed has occurred and the cipher is defined), with
\* strength >= PARANOIA_LEVELS[p].
C12_CreditedOutput ==
    \A p \in ParanoiaArgs : \A n \in NWords :
      \A r \in {randomWords(This, n, p, now)} :
        (r.threw = "none" /\ r.out > 0) =>
            /\ r.this.reseedCount >= 1
            /\ r.this.cipher.defined
            /\ \A k \in r.outKeys : k # ZeroKey /\ k.src \in {"reseed", "gate"}
            /\ r.this.strength >= Need(p)
            /\ r.this.strength > 0

C12_Witness ==
    /\ Returned /\ call.out > 0 /\ call.reseeds = 1 /\ call.full
    /\ defaultParanoia = 0 /\ reseedCount = 2
    /\ strength >= PARANOIA_LEVELS[6]

RECURSIVE SumFrom(_, _)
\* poolEntropy[i] + poolEntropy[i+1] + ... over the pools there are
SumFrom(bits, i) ==
    IF i \notin DOMAIN bits THEN 0 ELSE bits[i] + SumFrom(bits, i + 1)

\* the step is a randomWords call that reseeded
Reseeded ==
    /\ call'.op = "randomWords" /\ call'.reseeds = 1
    /\ reseedCount' = reseedCount + 1

\* C13: in every state (after submissions that succeed or fail, full and
\* partial reseeds, pool growth) poolStrength is the sum of poolEntropy over
\* all pools, and is not negative.
C13_PoolStrengthIsSum ==
    /\ poolStrength = SumFrom(poolEntropy, 0)
    /\ poolStrength >= 0
    /\ \A i \in DOMAIN poolEntropy : poolEntropy[i] >= 0

C13_Witness ==
    /\ call.op = "randomWords" /\ call.reseeds = 1 /\ ~call.full
    /\ ALen(pools) >= 3 /\ poolStrength > 0
    /\ poolEntropy[0] = 0 /\ poolEntropy[1] > 0 /\ poolEntropy[2] > poolEntropy[1]

\* C14 as stated: in a reseed, pool i is finalized and zeroed exactly when
\* the reseed is full or bit i of the pre-increment reseedCount is set.
C14_DrainedIffBit ==
    [][Reseeded =>
          \A i \in DOMAIN pools :
              (i \in call'.drained) <=> (call'.full \/ BitSet(reseedCount, i))
      ]_vars

\* C14 amended: in a reseed, pool i is finalized and zeroed exactly when the
\* reseed is full or bits 0..i-1 of the pre-increment reseedCount are all
\* clear (pool 0 in every reseed); the other pools keep content and bits.
C14_DrainedIffLowBitsClear ==
    [][Reseeded =>
          \A i \in DOMAIN pools :
              /\ (i \in call'.drained) <=>
                    (call'.full \/ \A j \in 0..(i - 1) : ~BitSet(reseedCount, j))
              /\ i \in call'.drained =>
                    (pools'[i] = FreshPool /\ poolEntropy'[i] = 0)
              /\ i \notin call'.drained =>
                    (pools'[i] = pools[i] /\ poolEntropy'[i] = poolEntropy[i])
      ]_vars

C14_Witness ==
    /\ call.op = "randomWords" /\ call.reseeds = 1 /\ call.full
    /\ reseedCount > 1 /\ ALen(pools) >= 2
    /\ call.drained = DOMAIN poolEntropy

\* the index at which a non-full reseed with pre-increment count n stops
\* among len pools: the least i with bit i of n set, or the last pool
StopAt(n, len) ==
    IF \E i \in 0..(len - 1) : BitSet(n, i)
    THEN CHOOSE i \in 0..(len - 1) :
            BitSet(n, i) /\ \A j \in 0..(i - 1) : ~BitSet(n, j)
    ELSE len - 1

\* C15: a non-full reseed drains pools 0..k in order, k the first pool whose
\* bit in the pre-increment reseedCount is set (or the last pool), so pool i
\* is drained exactly in the reseeds whose pre-increment count is a multiple
\* of 2^i: one in every 2^i consecutive non-full reseeds.
C15_FortunaSchedule ==
    [][(Reseeded /\ ~call'.full) =>
          /\ call'.drained = 0..StopAt(reseedCount, ALen(pools))
          /\ \A i \in DOMAIN pools :
                (i \in call'.drained) <=> (reseedCount % Pow2(i) = 0)
      ]_vars

C15_Witness ==
    /\ call.op = "randomWords" /\ call.reseeds = 1 /\ ~call.full
    /\ reseedCount = 13 /\ call.drained = {0, 1, 2} /\ ALen(pools) = 4

\* C16: a non-full reseed appends one empty pool iff it drained every pool
\* there was, which is iff pre-increment reseedCount + 1 >= 2^len(pools);
\* otherwise the pools keep their number.
C16_GrowsWhenLastPoolUsed ==
    [][(Reseeded /\ ~call'.full) =>
          /\ ALen(pools') = ALen(pools) + 1 <=> call'.drained = DOMAIN pools
          /\ ALen(pools') = ALen(pools) + 1 <=>
                reseedCount + 1 >= Pow2(ALen(pools))
          /\ ALen(pools') \in {ALen(pools), ALen(pools) + 1}
          /\ ALen(pools') = ALen(pools) + 1 =>
                (pools'[ALen(pools)] = FreshPool /\ poolEntropy'[ALen(pools)] = 0)
      ]_vars

\* the reseed counts at which C17 says a pool is appended
GrowthCounts == {1, 2, 4, 8, 16}

\* C17: from one pool, the pools have grown by one at each of the reseed
\* counts 1, 2, 4, 8, 16, so that there are at least 5 once reseedCount = 16.
C17_FivePoolsAfterSixteen ==
    /\ reseedCount = 16 => ALen(pools) >= 5
    /\ \A c \in GrowthCounts :
          reseedCount = c =>
              ALen(pools) >= 1 + Cardinality({x \in GrowthCounts : x < c})

\* C18: with P pools, P submissions in a row from one source, b bits each,
\* raise every poolEntropy[i] by exactly b and bring the source's robin back
\* to where it started (0 for a new source), whether or not another source
\* submits in between.
C18_RoundRobin ==
    [][(call'.op = "round" /\ eventId' # eventId) =>
          /\ \A i \in DOMAIN poolEntropy :
                poolEntropy'[i] = poolEntropy[i] + RoundBits
          /\ DOMAIN poolEntropy' = DOMAIN poolEntropy
          /\ robins'["ext"] = IF "ext" \in DOMAIN robins THEN robins["ext"] ELSE 0
          /\ poolStrength' = poolStrength + ALen(pools) * RoundBits
      ]_vars

C18_Witness ==
    /\ call.op = "round" /\ ALen(pools) >= 3
    /\ robins["ext"] = 2 /\ robins["user"] = 1
    /\ \A i \in DOMAIN poolEntropy : poolEntropy[i] >= RoundBits

\* C19: every recorded robin designates a pool, there is a poolEntropy entry
\* for every pool, there is at least one pool, the number of pools never
\* goes down, and each submission is routed to a pool that exists.
C19_RobinsInRange ==
    /\ [](/\ \A s \in DOMAIN robins : 0 <= robins[s] /\ robins[s] < ALen(pools)
          /\ DOMAIN pools = 0..(ALen(pools) - 1)
          /\ DOMAIN poolEntropy = DOMAIN pools
          /\ ALen(pools) >= 1
          /\ call.op = "addEntropy" => call.robin \in DOMAIN pools)
    /\ [][ALen(pools') >= ALen(pools)]_vars

C19_Witness ==
    /\ call.op = "addEntropy" /\ call.threw = "none"
    /\ ALen(pools) = 4 /\ call.robin = 3 /\ robins["user"] = 0

RECURSIVE DrainedBits(_)
\* the bits a reseed step drained: poolEntropy before, over the pools drained
DrainedBits(i) ==
    IF i \notin DOMAIN poolEntropy THEN 0
    ELSE (IF i \in call'.drained THEN poolEntropy[i] ELSE 0) + DrainedBits(i + 1)

\* C20: strength never goes down; a reseed draining s bits makes it
\* max(strength, s) and takes exactly s from poolStrength, and with s = 0
\* still increments reseedCount; a step that is no reseed leaves strength.
C20_StrengthMonotone ==
    [][/\ strength' >= strength
       /\ Reseeded =>
            /\ strength' = Max(strength, DrainedBits(0))
            /\ poolStrength' = poolStrength - DrainedBits(0)
            /\ DrainedBits(0) = 0 => strength' = strength
       /\ reseedCount' = reseedCount => strength' = strength
       /\ reseedCount' \in {reseedCount, reseedCount + 1}
      ]_vars

C20_Witness ==
    /\ call.op = "randomWords" /\ call.reseeds = 1 /\ ~call.full
    /\ strength > PARANOIA_LEVELS[6] /\ poolStrength > 0
    /\ ALen(pools) >= 3

\* C21: the cipher is defined iff at least one reseed has completed; no
\* call ever runs the block function or a gate on an undefined cipher (which
\* would end it with a TypeError); and strength > 0 implies reseedCount >= 1.
C21_CipherIffReseeded ==
    /\ cipher.defined <=> reseedCount >= 1
    /\ cipher.defined => cipher = Aes(key)
    /\ ~cipher.defined => (cipher = NoCipher /\ key = ZeroKey)
    /\ call.threw # "TypeError"
    /\ (call.op = "randomWords" /\ call.out + call.gates > 0) =>
            reseedCount >= 1
    /\ strength > 0 => reseedCount >= 1

C21_Witness ==
    /\ Returned /\ call.full /\ call.gates = 1 /\ call.out = 8
    /\ reseedCount = 1 /\ cipher.defined /\ strength = PARANOIA_LEVELS[1]

\* the two 16-bit digits of a 32-bit word, low digit first
Digits16(w) ==
    <<w % 65536, IF w >= 0 THEN w \div 65536 ELSE (w \div 65536) + 65536>>

\* the counter as a 128-bit little-endian integer: 8 digits in base 65536
Digits(c) ==
    Digits16(c[0]) \o Digits16(c[1]) \o Digits16(c[2]) \o Digits16(c[3])

RECURSIVE SuccFrom(_, _)
\* digits d plus 1 from digit i on, modulo 65536^Len(d)
SuccFrom(d, i) ==
    IF i > Len(d) THEN d
    ELSE IF d[i] = 65535 THEN SuccFrom([d EXCEPT ![i] = 0], i + 1)
    ELSE [d EXCEPT ![i] = d[i] + 1]

RECURSIVE Plus(_, _)
\* digits d plus k, modulo 65536^Len(d)
Plus(d, k) == IF k = 0 THEN d ELSE Plus(SuccFrom(d, 1), k - 1)

\* the least word of c that does not wrap to 0 when c is incremented (3 if all do)
FirstKept(c) ==
    IF \E i \in 0..3 : c[i] # -1
    THEN CHOOSE i \in 0..3 : c[i] # -1 /\ \A j \in 0..(i - 1) : c[j] = -1
    ELSE 3

\* C22: as a 128-bit little-endian integer the counter only moves up: a
\* step adds one for each block generated, two for each gate and one for a
\* reseed, modulo 2^128 (a randomWords(n) call that returns without reseed
\* adds ceil(n/4) + 2), nothing else changes it, and a single increment
\* carries exactly through the words that wrap to 0.
C22_CounterIncrements ==
    [][/\ (call'.op = "randomWords" /\ now' = now) =>
            /\ Digits(counter') =
                  Plus(Digits(counter),
                       call'.reseeds + (call'.out \div 4) + 2 * call'.gates)
            /\ (call'.threw = "none" /\ call'.reseeds = 0) =>
                  Digits(counter') =
                      Plus(Digits(counter), ((call'.n + 3) \div 4) + 2)
       /\ (call'.op # "randomWords" \/ now' # now) => counter' = counter
       /\ Digits(IncCounter(counter)) = Plus(Digits(counter), 1)
       /\ \A i \in 0..3 :
            IncCounter(counter)[i] =
                IF i < FirstKept(counter) THEN 0
                ELSE IF i = FirstKept(counter)
                     THEN (IF counter[i] = -1 THEN 0 ELSE
                           IF counter[i] = 2147483647 THEN (-2147483647) - 1
                           ELSE counter[i] + 1)
                     ELSE counter[i]
      ]_vars

C22_Witness ==
    /\ Returned /\ call.reseeds = 0 /\ call.n = 5 /\ call.out = 8
    /\ counter[0] = 3 /\ counter[1] = 0 /\ counter[2] = 1 /\ counter[3] = 0

\* C23: readiness is sticky per paranoia level: READY at level p implies
\* READY at every lower level, and no step (submission, request at any
\* level, full or partial reseed, change of default level, clock advance)
\* takes the READY bit away from a level that had it.
C23_ReadyIsSticky ==
    /\ [](\A p \in Paranoias : \A q \in 0..p :
             HasFlag(isReady(This, p, now), READY) =>
                 HasFlag(isReady(This, q, now), READY))
    /\ [][\A p \in Paranoias :
             HasFlag(isReady(This, p, now), READY) =>
                 HasFlag(isReady(Next_This, p, now'), READY)]_vars

\* a partial reseed that drained less than the working strength it found
C23_Witness ==
    /\ Returned /\ call.reseeds = 1 /\ ~call.full
    /\ \E p \in Paranoias :
          /\ HasFlag(isReady(This, p, now), READY)
          /\ PARANOIA_LEVELS[p] > BITS_PER_RESEED

\* C24: reseeds are rate limited. Every reseed sets nextReseed to the clock
\* plus MILLISECONDS_PER_RESEED; a partial (time-triggered) reseed happens
\* only in a randomWords call that found READY|REQUIRES_RESEED, strictly
\* after the deadline the previous reseed set and with more than
\* BITS_PER_RESEED bits in pool 0; a step without reseed leaves nextReseed;
\* and the clock passing the deadline changes nothing in the generator.
C24_ReseedRateLimit ==
    /\ [](reseedCount >= 1 => nextReseed <= now + MILLISECONDS_PER_RESEED)
    /\ [][/\ reseedCount' # reseedCount =>
                /\ Reseeded
                /\ now' = now
                /\ nextReseed' = now + MILLISECONDS_PER_RESEED
                /\ call'.full <=> call'.res = REQUIRES_RESEED + NOT_READY
                /\ ~call'.full =>
                      /\ call'.res = REQUIRES_RESEED + READY
                      /\ reseedCount >= 1
                      /\ now > nextReseed
                      /\ poolEntropy[0] > BITS_PER_RESEED
          /\ reseedCount' = reseedCount => nextReseed' = nextReseed
          /\ now' # now => (now' > now /\ UNCHANGED fields)
         ]_vars

\* a partial reseed right after the deadline of the reseed before it
C24_Witness ==
    /\ Returned /\ call.reseeds = 1 /\ ~call.full
    /\ call.res = REQUIRES_RESEED + READY
    /\ reseedCount = 2
    /\ now = StartTime + MILLISECONDS_PER_RESEED + 1
    /\ nextReseed = now + MILLISECONDS_PER_RESEED

====
